---- MODULE Spec2Model ----
(***************************************************************************)
(* A model of the two LogSmith automation scripts:                         *)
(*   get_issues.py        the Issue Lister (label filter over gh output)   *)
(*   send_issue_email.py  the Issue Notifier (fetch, newest-artifact       *)
(*                        selection, HTML rendering, SMTP submission)      *)
(* File names, timestamps and label names are sequences of one-character   *)
(* strings, so that the regular expression, strptime and str.join are      *)
(* modelled by what they do to the text.                                   *)
(***************************************************************************)
EXTENDS Integers, Sequences, FiniteSets, TLC

VARIABLES
    \* --- the environment of the Notifier ------------------------------------
    cfg,                \* sections present in settings.ini
    smtp_status,        \* how the mail submission endpoint will behave
    outbox,             \* messages the endpoint has accepted
    \* --- the artifact directory and find_latest_test_result -------------
    issue_number,       \* the integer issue identifier
    output_dir_exists,  \* os.path.exists(output_dir)
    listing,            \* the files of output_dir, in os.listdir order
    find_ret,           \* outcome of the last find_latest_test_result call
    prev_ret,           \* outcome of the call before it
    own_changed,        \* an artifact of issue_number was added or removed
    fpc,                \* position of the selector scenario
    \* --- send_email / format_issue_html ------------------------------------
    s_issue,            \* the issue record handed to send_email
    s_attachment,       \* its attachment_path argument
    s_kind,             \* what the disk holds at that path
    send_ret,           \* outcome of the send_email call
    spc,                \* position of the sender scenario
    \* --- main() of send_issue_email.py -------------------------------------
    argv,               \* sys.argv
    gh_status,          \* how the gh command will behave
    mpc,                \* position in main()
    exit_code,          \* process exit status (-1 while running)
    steps,              \* the steps main() has performed, in order
    gh_calls,           \* gh invocations so far
    smtp_attempts,      \* SMTP sessions opened so far
    m_issue,            \* the fetched issue
    m_attachment,       \* the path main() passes to send_email
    \* --- get_issues.py -------------------------------------------------------
    l_gh,               \* how gh will behave for the Lister, and its output
    lpc,                \* position in the script
    l_issues,           \* json.loads(result.stdout)
    l_i,                \* index of the next issue of the for loop
    l_stdout,           \* lines printed to standard output
    l_stderr,           \* lines printed to standard error
    l_exit              \* process exit status (-1 while running)

vars == <<issue_number, output_dir_exists, listing, find_ret, prev_ret,
          own_changed, fpc, s_issue, s_attachment, s_kind, smtp_status,
          send_ret, outbox, spc, argv, cfg, gh_status, mpc, exit_code, steps,
          gh_calls, smtp_attempts, m_issue, m_attachment, l_gh, lpc, l_issues,
          l_i, l_stdout, l_stderr, l_exit>>

findVars == <<issue_number, output_dir_exists, listing, find_ret, prev_ret,
              own_changed, fpc>>
envVars == <<cfg, smtp_status, outbox>>
sendVars == <<s_issue, s_attachment, s_kind, send_ret, spc>>
mainVars == <<argv, gh_status, mpc, exit_code, steps, gh_calls, smtp_attempts,
              m_issue, m_attachment>>
listVars == <<l_gh, lpc, l_issues, l_i, l_stdout, l_stderr, l_exit>>

(***************************************************************************)
(* Bounds of the model.                                                    *)
(***************************************************************************)
MaxFiles == 2       \* files in the artifact directory when a scenario starts
MaxLabels == 2      \* labels (and assignees) on one issue
MaxIssues == 2      \* issues returned by `gh issue list`

(***************************************************************************)
(* Text.                                                                   *)
(***************************************************************************)
DigitChars == <<"0", "1", "2", "3", "4", "5", "6", "7", "8", "9">>

DigitChar(d) == DigitChars[d + 1]

\* \d, for the ASCII digits (the other Unicode decimal digits \d admits are
\* read by int() in the same way)
IsDigit(c) == \E d \in 0..9 : DigitChars[d + 1] = c

DigitVal(c) == CHOOSE d \in 0..9 : DigitChars[d + 1] = c

RECURSIVE NatStr(_)
NatStr(n) == IF n < 10 THEN <<DigitChar(n)>>
             ELSE NatStr(n \div 10) \o <<DigitChar(n % 10)>>

\* str(n) of a Python int
Str(n) == IF n < 0 THEN <<"-">> \o NatStr(-n) ELSE NatStr(n)

\* int(s) of a run of decimal digits
RECURSIVE DigitsVal(_)
DigitsVal(s) == IF Len(s) = 0 THEN 0
                ELSE 10 * DigitsVal(SubSeq(s, 1, Len(s) - 1)) + DigitVal(s[Len(s)])

StartsWith(s, p) == Len(s) >= Len(p) /\ SubSeq(s, 1, Len(p)) = p

\* No value (Python's None) and a present value, for paths.
None == [some |-> FALSE, path |-> <<>>]
Some(p) == [some |-> TRUE, path |-> p]

\* os.path.join(dir, name) and os.path.basename(path), with "/" as os.sep
PathJoin(dir, name) == dir \o <<"/">> \o name

RECURSIVE Basename(_)
Basename(p) == IF Len(p) = 0 \/ p[Len(p)] = "/" THEN <<>>
               ELSE Basename(SubSeq(p, 1, Len(p) - 1)) \o <<p[Len(p)]>>

(***************************************************************************)
(* Artifact files.  A file of the directory is described by the parts its  *)
(* producer put in its name; FileName is the text os.listdir returns.      *)
(*   prefix  "std" for Test-Results-GH, "lower" for test-results-gh        *)
(*   num     the issue number written after GH                             *)
(*   ts      <<month, day, year, hour, minute, second>> as written         *)
(*   pad     TRUE when the fields are zero-filled to their fixed widths    *)
(*   ext     "html", "htm" or "txt"                                        *)
(***************************************************************************)
File(prefix, num, ts, pad, ext) ==
    [prefix |-> prefix, num |-> num, ts |-> ts, pad |-> pad, ext |-> ext]

PrefixChars == <<"T", "e", "s", "t", "-", "R", "e", "s", "u", "l", "t", "s",
                 "-", "G", "H">>

LowerPrefixChars == <<"t", "e", "s", "t", "-", "r", "e", "s", "u", "l", "t",
                      "s", "-", "g", "h">>

\* n zero-filled to width w (n is written in full when it is wider)
ZeroFill(n, w) ==
    LET s == NatStr(n)
    IN  IF Len(s) >= w THEN s ELSE [i \in 1..(w - Len(s)) |-> "0"] \o s

TsChars(ts, pad) ==
    LET f(k, w) == IF pad THEN ZeroFill(ts[k], w) ELSE NatStr(ts[k])
    IN  f(1, 2) \o <<"-">> \o f(2, 2) \o <<"-">> \o f(3, 4) \o <<"-">> \o
        f(4, 2) \o <<"-">> \o f(5, 2) \o <<"-">> \o f(6, 2)

ExtChars(ext) ==
    CASE ext = "html" -> <<".", "h", "t", "m", "l">>
      [] ext = "htm" -> <<".", "h", "t", "m">>
      [] OTHER -> <<".", "t", "x", "t">>

FileName(f) ==
    (IF f.prefix = "std" THEN PrefixChars ELSE LowerPrefixChars)
        \o NatStr(f.num) \o <<"-">> \o TsChars(f.ts, f.pad) \o ExtChars(f.ext)

\* The configured TestResults.OutputDirectory.
OutputDir == <<"o", "u", "t">>

(***************************************************************************)
(* find_latest_test_result                                                 *)
(***************************************************************************)
\* (\d{2}-\d{2}-\d{4}-\d{2}-\d{2}-\d{2}) : 19 characters, "-" at 3,6,11,14,17
TimestampShape(s) ==
    /\ Len(s) = 19
    /\ \A i \in 1..19 : IF i \in {3, 6, 11, 14, 17} THEN s[i] = "-"
                        ELSE IsDigit(s[i])

\* \.html?$   ($ also matches before one trailing newline)
PatternTails == {<<".", "h", "t", "m">>, <<".", "h", "t", "m", "l">>,
                 <<".", "h", "t", "m", "\n">>, <<".", "h", "t", "m", "l", "\n">>}

\* The issue-number part of the compiled pattern: GH{issue_number}-
PatternHead(issue_number_) == PrefixChars \o Str(issue_number_) \o <<"-">>

\* A faulty variant: the dash that ends the issue number is missing from the pattern,
\* and further digits of a longer number are skipped.
PatternMatchPrefixBug(issue_number_, filename) ==
    LET head == PrefixChars \o Str(issue_number_)
        rest == SubSeq(filename, Len(head) + 1, Len(filename))
        k == IF \E j \in 1..Len(rest) : rest[j] = "-"
             THEN CHOOSE j \in 1..Len(rest) :
                      rest[j] = "-" /\ \A i \in 1..(j - 1) : rest[i] # "-"
             ELSE 0
        ok == /\ StartsWith(filename, head)
              /\ k > 0
              /\ \A i \in 1..(k - 1) : IsDigit(rest[i])
              /\ Len(rest) >= k + 19
              /\ TimestampShape(SubSeq(rest, k + 1, k + 19))
              /\ SubSeq(rest, k + 20, Len(rest)) \in PatternTails
    IN  [matched |-> ok,
         group1 |-> IF ok THEN SubSeq(rest, k + 1, k + 19) ELSE <<>>]

\* pattern.match(filename): whether it matches, and group(1)
PatternMatch(issue_number_, filename) ==
    LET head == PatternHead(issue_number_)
        n == Len(head)
        ok == /\ StartsWith(filename, head)
              /\ Len(filename) >= n + 19
              /\ TimestampShape(SubSeq(filename, n + 1, n + 19))
              /\ SubSeq(filename, n + 20, Len(filename)) \in PatternTails
    IN  [matched |-> ok,
         group1 |-> IF ok THEN SubSeq(filename, n + 1, n + 19) ELSE <<>>]

IsLeap(y) == (y % 4 = 0 /\ y % 100 # 0) \/ y % 400 = 0

DaysInMonth(y, m) ==
    IF m = 2 THEN (IF IsLeap(y) THEN 29 ELSE 28)
    ELSE IF m \in {4, 6, 9, 11} THEN 30 ELSE 31

\* The six numbers of a text of the shape MM-DD-YYYY-HH-MM-SS.
TimestampFields(s) ==
    [month |-> DigitsVal(SubSeq(s, 1, 2)), day |-> DigitsVal(SubSeq(s, 4, 5)),
     year |-> DigitsVal(SubSeq(s, 7, 10)), hour |-> DigitsVal(SubSeq(s, 12, 13)),
     minute |-> DigitsVal(SubSeq(s, 15, 16)),
     second |-> DigitsVal(SubSeq(s, 18, 19))]

\* A faulty variant: the fields are read but their ranges are never checked.
StrptimeNoRangeCheck(timestamp_str) ==
    LET t == TimestampFields(timestamp_str)
    IN  [exc |-> "none",
         value |-> <<t.year, t.month, t.day, t.hour, t.minute, t.second>>]

\* datetime.strptime(timestamp_str, '%m-%d-%Y-%H-%M-%S') on a text of that
\* shape: the directives accept month 01-12, day 01-31, hour 00-23, minute
\* 00-59 and second 00-61; the datetime constructor then rejects year 0, a
\* day past the end of the month and a second above 59.  Every rejection is
\* a ValueError.  A datetime is <<year, month, day, hour, minute, second>>.
Strptime(timestamp_str) ==
    LET t == TimestampFields(timestamp_str)
        directives == /\ t.month \in 1..12
                      /\ t.day \in 1..31
                      /\ t.hour \in 0..23
                      /\ t.minute \in 0..59
                      /\ t.second \in 0..61
        constructed == /\ t.year >= 1
                       /\ t.day <= DaysInMonth(t.year, t.month)
                       /\ t.second <= 59
    IN  IF directives /\ constructed
        THEN [exc |-> "none",
              value |-> <<t.year, t.month, t.day, t.hour, t.minute, t.second>>]
        ELSE [exc |-> "ValueError", value |-> <<>>]

\* except ValueError: continue
Caught(exc) == exc = "ValueError"

\* A faulty variant: the timestamps are ordered as their text MM-DD-YYYY-HH-MM-SS.
DatetimeLessAsText(a, b) ==
    LET ta == <<a[2], a[3], a[1], a[4], a[5], a[6]>>
        tb == <<b[2], b[3], b[1], b[4], b[5], b[6]>>
    IN  \E k \in 1..6 : ta[k] < tb[k] /\ \A j \in 1..(k - 1) : ta[j] = tb[j]

\* datetime < datetime
DatetimeLess(a, b) ==
    \E k \in 1..6 : a[k] < b[k] /\ \A j \in 1..(k - 1) : a[j] = b[j]

\* The for loop over os.listdir(output_dir), from entry i on: the list
\* matching_files it builds, and the exception that ends it early, if any.
RECURSIVE ScanListing(_, _, _, _, _)
ScanListing(issue_number_, output_dir, filenames, i, matching_files) ==
    IF i > Len(filenames)
    THEN [files |-> matching_files, raised |-> "none"]
    ELSE LET filename == filenames[i]
             match == PatternMatch(issue_number_, filename)
             parsed == Strptime(match.group1)
         IN  IF ~match.matched
             THEN ScanListing(issue_number_, output_dir, filenames, i + 1,
                              matching_files)
             ELSE IF parsed.exc = "none"
             THEN ScanListing(issue_number_, output_dir, filenames, i + 1,
                      Append(matching_files,
                             [filepath |-> PathJoin(output_dir, filename),
                              timestamp |-> parsed.value]))
             ELSE IF Caught(parsed.exc)
             THEN ScanListing(issue_number_, output_dir, filenames, i + 1,
                              matching_files)
             ELSE [files |-> matching_files, raised |-> parsed.exc]

\* list.sort(key=lambda x: x[1], reverse=True): a stable sort, so entries
\* with equal timestamps keep their order.  SortInsert puts x behind every
\* entry whose timestamp is not older than x's.
SortInsert(sorted, x) ==
    LET older == {k \in 1..Len(sorted) :
                      DatetimeLess(sorted[k].timestamp, x.timestamp)}
        at == IF older = {} THEN Len(sorted) + 1
              ELSE CHOOSE k \in older : \A j \in older : k <= j
    IN  SubSeq(sorted, 1, at - 1) \o <<x>> \o SubSeq(sorted, at, Len(sorted))

RECURSIVE SortNewestFirst(_)
SortNewestFirst(files) ==
    IF Len(files) = 0 THEN <<>>
    ELSE SortInsert(SortNewestFirst(SubSeq(files, 1, Len(files) - 1)),
                    files[Len(files)])

\* A faulty variant: the existence test is missing and os.listdir raises.
MissingDirRaises ==
    [result |-> None, warning |-> "none", raised |-> "FileNotFoundError"]

\* if not os.path.exists(output_dir): print a warning and return None
MissingDirOutcome ==
    [result |-> None, warning |-> "directory not found", raised |-> "none"]

\* find_latest_test_result(issue_number, output_dir), given whether the
\* directory exists and what os.listdir returns.  result is the returned
\* path or None, warning the warning printed, raised the exception that
\* left the function ("none" when it returned).
find_latest_test_result(issue_number_, output_dir, exists, filenames) ==
    IF ~exists
    THEN MissingDirOutcome
    ELSE LET scan == ScanListing(issue_number_, output_dir, filenames, 1, <<>>)
         IN  IF scan.raised # "none"
             THEN [result |-> None, warning |-> "none", raised |-> scan.raised]
             ELSE IF Len(scan.files) = 0
             THEN [result |-> None, warning |-> "no files found",
                   raised |-> "none"]
             ELSE [result |-> Some(SortNewestFirst(scan.files)[1].filepath),
                   warning |-> "none", raised |-> "none"]

(***************************************************************************)
(* The selector scenario: the directory holds some files, the selector is  *)
(* called, the external test runner adds or removes one file, and the      *)
(* selector is called again.                                               *)
(***************************************************************************)
IssueNumbers == {3, 32}

\* Files the external test runner may have left in the directory.
FilePool ==
    { File("std", 32, <<1, 2, 2024, 10, 0, 0>>, TRUE, "html"),
      File("std", 32, <<1, 3, 2024, 9, 0, 0>>, TRUE, "html"),
      File("std", 32, <<1, 3, 2024, 9, 0, 0>>, TRUE, "htm"),
      File("std", 32, <<12, 31, 2024, 23, 59, 59>>, TRUE, "htm"),
      File("std", 32, <<1, 1, 2025, 0, 0, 0>>, TRUE, "html"),
      File("std", 32, <<13, 1, 2025, 10, 0, 0>>, TRUE, "html"),
      File("std", 32, <<1, 45, 2025, 10, 0, 0>>, TRUE, "html"),
      File("std", 32, <<2, 29, 2025, 10, 0, 0>>, TRUE, "htm"),
      File("std", 32, <<6, 30, 2025, 23, 59, 60>>, TRUE, "html"),
      File("std", 3, <<2, 29, 2024, 12, 30, 0>>, TRUE, "html"),
      File("std", 320, <<1, 1, 2026, 0, 0, 1>>, TRUE, "html"),
      File("std", 99, <<1, 1, 2026, 0, 0, 2>>, TRUE, "html"),
      File("std", 32, <<1, 1, 2026, 0, 0, 3>>, TRUE, "txt"),
      File("lower", 32, <<1, 1, 2026, 0, 0, 4>>, TRUE, "html"),
      File("std", 32, <<1, 1, 2026, 0, 0, 5>>, FALSE, "html") }

\* Directory listings of at most n distinct files, in any order.
Listings(n) ==
    UNION { { l \in [1..k -> FilePool] :
                \A i, j \in 1..k : i # j => l[i] # l[j] } : k \in 0..n }

FileNames(l) == [i \in 1..Len(l) |-> FileName(l[i])]

NotCalled == [result |-> None, warning |-> "not called", raised |-> "none"]

\* The file is named, in the fixed pattern, for this issue.
NamedFor(f, n) ==
    f.prefix = "std" /\ f.num = n /\ f.pad /\ f.ext \in {"html", "htm"}

InsertAt(l, k, f) == SubSeq(l, 1, k - 1) \o <<f>> \o SubSeq(l, k, Len(l))

RemoveAt(l, k) == SubSeq(l, 1, k - 1) \o SubSeq(l, k + 1, Len(l))

FindIdle ==
    /\ issue_number = 32 /\ output_dir_exists = FALSE /\ listing = <<>>
    /\ find_ret = NotCalled /\ prev_ret = NotCalled
    /\ own_changed = FALSE /\ fpc = "idle"

InitFind ==
    /\ issue_number \in IssueNumbers
    /\ output_dir_exists \in BOOLEAN
    /\ listing \in Listings(MaxFiles)
    /\ ~output_dir_exists => listing = <<>>
    /\ find_ret = NotCalled
    /\ prev_ret = NotCalled
    /\ own_changed = FALSE
    /\ fpc = "call1"

\* One call of find_latest_test_result(issue_number, output_dir).
FindCall ==
    /\ fpc \in {"call1", "call2"}
    /\ prev_ret' = find_ret
    /\ find_ret' = find_latest_test_result(issue_number, OutputDir,
                                           output_dir_exists, FileNames(listing))
    /\ fpc' = IF fpc = "call1" THEN "env" ELSE "done"
    /\ UNCHANGED <<issue_number, output_dir_exists, listing, own_changed,
                   envVars, sendVars, mainVars, listVars>>

\* The test runner writes, into the existing directory, a file that is not
\* an artifact of issue_number.
EnvAddForeign ==
    /\ fpc = "env"
    /\ output_dir_exists
    /\ \E f \in FilePool, k \in 1..(Len(listing) + 1) :
          /\ ~NamedFor(f, issue_number)
          /\ \A i \in 1..Len(listing) : listing[i] # f
          /\ listing' = InsertAt(listing, k, f)
    /\ fpc' = "call2"
    /\ UNCHANGED <<issue_number, output_dir_exists, find_ret, prev_ret, own_changed,
                   envVars, sendVars, mainVars, listVars>>

\* A file that is not an artifact of issue_number is deleted.
EnvRemoveForeign ==
    /\ fpc = "env"
    /\ \E k \in 1..Len(listing) :
          /\ ~NamedFor(listing[k], issue_number)
          /\ listing' = RemoveAt(listing, k)
    /\ fpc' = "call2"
    /\ UNCHANGED <<issue_number, output_dir_exists, find_ret, prev_ret,
                   own_changed, envVars, sendVars, mainVars, listVars>>

\* The test runner writes a new artifact of issue_number.
EnvAddOwn ==
    /\ fpc = "env"
    /\ output_dir_exists
    /\ \E f \in FilePool, k \in 1..(Len(listing) + 1) :
          /\ NamedFor(f, issue_number)
          /\ \A i \in 1..Len(listing) : listing[i] # f
          /\ listing' = InsertAt(listing, k, f)
    /\ own_changed' = TRUE
    /\ fpc' = "call2"
    /\ UNCHANGED <<issue_number, output_dir_exists, find_ret, prev_ret,
                   envVars, sendVars, mainVars, listVars>>

NextFind == FindCall \/ EnvAddForeign \/ EnvRemoveForeign \/ EnvAddOwn

(***************************************************************************)
(* format_issue_html and send_email                                        *)
(***************************************************************************)
\* sep.join(names)
RECURSIVE Join(_, _)
Join(sep, names) ==
    IF Len(names) = 0 THEN <<>>
    ELSE IF Len(names) = 1 THEN names[1]
    ELSE Join(sep, SubSeq(names, 1, Len(names) - 1)) \o sep \o names[Len(names)]

\* A faulty variant: the test is "is not None" instead of the text's truth value.
TruthyNotNone(text) == TRUE

\* The truth value of a str: it is not empty.
Truthy(text) == Len(text) > 0

Element(tag, text) == [tag |-> tag, text |-> text]

\* format_issue_html(issue): the elements of the document's body, in order.
\* A conditional line whose condition is false renders as the empty string.
format_issue_html(issue) ==
    LET labels == Join(<<",", " ">>, issue.labels)
        assignees == Join(<<",", " ">>, issue.assignees)
    IN  <<Element("h2", <<"#">> \o Str(issue.number) \o <<":", " ">> \o issue.title),
          Element("Status", issue.state)>>
        \o (IF Truthy(labels) THEN <<Element("Labels", labels)>> ELSE <<>>)
        \o (IF Truthy(assignees) THEN <<Element("Assignees", assignees)>> ELSE <<>>)
        \o <<Element("Created", issue.createdAt),
             Element("Updated", issue.updatedAt),
             Element("Description", issue.body),
             Element("link", issue.url)>>

\* A faulty variant: the attachment is added whenever a path is given.
AttachWanted_NoExistsCheck(attachment_path, kind) ==
    attachment_path.some /\ Truthy(attachment_path.path)

\* attachment_path and os.path.exists(attachment_path); kind is what the disk
\* holds at the path: "missing", "file" or "dir".
AttachWanted(attachment_path, kind) ==
    attachment_path.some /\ Truthy(attachment_path.path) /\ kind # "missing"

\* The exception the SMTP session raises, "none" when the message is accepted.
SmtpSession(status) ==
    CASE status = "ok" -> "none"
      [] status = "refused" -> "ConnectionRefusedError"
      [] OTHER -> "SMTPAuthenticationError"

\* send_email(config, issue, attachment_path, repo_name), given the sections
\* of the configuration, what the disk holds at attachment_path and how the
\* endpoint behaves.  ret is the value returned, raised the exception that
\* left the function ("none" when it returned), delivered the messages the
\* endpoint accepted and attempts the SMTP sessions opened.
send_email(config, issue, attachment_path, repo_name, kind, status) ==
    LET nothing == [ret |-> FALSE, raised |-> "none", delivered |-> <<>>,
                    attempts |-> 0]
        subject == (IF Truthy(repo_name) THEN repo_name \o <<" ">> ELSE <<>>)
                   \o <<"G", "H", "-">> \o Str(issue.number) \o <<":", " ">>
                   \o issue.title
        attach == AttachWanted(attachment_path, kind)
        msg == [subject |-> subject,
                html |-> format_issue_html(issue),
                attachments |->
                    IF attach
                    THEN <<[filename |-> Basename(attachment_path.path),
                            source |-> attachment_path.path]>>
                    ELSE <<>>]
        session == SmtpSession(status)
    IN  IF "Email" \notin config
        THEN [nothing EXCEPT !.raised = "KeyError"]
        ELSE IF attach /\ kind = "dir"
        THEN [nothing EXCEPT !.raised = "IsADirectoryError"]
        ELSE IF session = "none"
        THEN [ret |-> TRUE, raised |-> "none", delivered |-> <<msg>>,
              attempts |-> 1]
        ELSE [nothing EXCEPT !.attempts = 1]

(***************************************************************************)
(* The sender scenario: one call of send_email on any issue and path.      *)
(***************************************************************************)
LabelNames == {<<"b", "u", "g">>, <<"r", "e", "a", "d", "y">>, <<"u", "i">>}

Logins == {<<"a", "n", "n">>, <<"b", "o", "b">>}

\* The sequences of at most n distinct members of S.
DistinctSeqs(S, n) ==
    UNION { { q \in [1..k -> S] : \A i, j \in 1..k : i # j => q[i] # q[j] }
            : k \in 0..n }

Issue(number, labels, assignees) ==
    [number |-> number, title |-> <<"t">>, state |-> <<"O", "P", "E", "N">>,
     labels |-> labels, assignees |-> assignees,
     createdAt |-> <<"c">>, updatedAt |-> <<"u">>, body |-> <<"b">>,
     url |-> <<"l">>]

SampleFile == File("std", 32, <<1, 2, 2024, 10, 0, 0>>, TRUE, "html")

SamplePath == PathJoin(OutputDir, FileName(SampleFile))

RepoName == <<"L", "o", "g", "S", "m", "i", "t", "h">>

SmtpStatuses == {"ok", "refused", "auth failed"}

AllSections == {"GitHub", "TestResults", "Email"}

SendNotCalled == [ret |-> FALSE, raised |-> "not called", delivered |-> <<>>,
                  attempts |-> 0]

SendIdle ==
    /\ s_issue = Issue(32, <<>>, <<>>) /\ s_attachment = None
    /\ s_kind = "missing" /\ send_ret = SendNotCalled /\ spc = "idle"

InitSend ==
    /\ s_issue \in { Issue(32, ls, as) : ls \in DistinctSeqs(LabelNames, MaxLabels),
                                         as \in DistinctSeqs(Logins, MaxLabels) }
    /\ s_attachment \in {None, Some(SamplePath)}
    /\ s_kind \in {"missing", "file", "dir"}
    /\ ~s_attachment.some => s_kind = "missing"
    /\ cfg \in {AllSections, AllSections \ {"Email"}}
    /\ smtp_status \in SmtpStatuses
    /\ outbox = <<>>
    /\ send_ret = SendNotCalled
    /\ spc = "call"

SendCall ==
    /\ spc = "call"
    /\ LET r == send_email(cfg, s_issue, s_attachment, RepoName, s_kind,
                           smtp_status)
       IN  /\ send_ret' = r
           /\ outbox' = outbox \o r.delivered
    /\ spc' = "done"
    /\ UNCHANGED <<cfg, smtp_status, s_issue, s_attachment, s_kind,
                   findVars, mainVars, listVars>>

NextSend == SendCall

(***************************************************************************)
(* main() of send_issue_email.py                                           *)
(***************************************************************************)
\* int(text): the value, or ValueError.  An optional sign and then one or
\* more decimal digits.
IntParse(text) ==
    LET signed == Len(text) > 0 /\ text[1] \in {"-", "+"}
        digits == IF signed THEN SubSeq(text, 2, Len(text)) ELSE text
        ok == Len(digits) > 0 /\ \A i \in 1..Len(digits) : IsDigit(digits[i])
    IN  IF ~ok THEN [exc |-> "ValueError", value |-> 0]
        ELSE [exc |-> "none",
              value |-> IF signed /\ text[1] = "-" THEN 0 - DigitsVal(digits)
                        ELSE DigitsVal(digits)]

\* subprocess.run(['gh', ...], check=True): the exception it raises.
GhRun(status) ==
    CASE status = "ok" -> "none"
      [] status = "nonzero" -> "CalledProcessError"
      [] OTHER -> "FileNotFoundError"

\* A faulty variant: the handlers print their message and do not exit.
get_github_issue_NoExit(status) == [exit |-> -1]

\* get_github_issue(issue_number, repository), given how gh behaves: the
\* status it ends the process with, -1 when it returns the issue.  Both
\* handlers end with sys.exit(1).
get_github_issue(status) ==
    LET exc == GhRun(status)
    IN  IF exc = "none" THEN [exit |-> -1] ELSE [exit |-> 1]

ScriptName == <<"s", "e", "n", "d">>

Argvs == { <<ScriptName>>,
           <<ScriptName, <<"3", "2">>>>,
           <<ScriptName, <<"3">>>>,
           <<ScriptName, <<"-", "3">>>>,
           <<ScriptName, <<"a", "b", "c">>>>,
           <<ScriptName, <<"3", "x">>>>,
           <<ScriptName, <<>>>>,
           <<ScriptName, <<"3", "2">>, <<"7">>>> }

\* What main() may find in the output directory: whether it exists, and its
\* files.
MainDirs ==
    LET old == File("std", 32, <<12, 31, 2024, 23, 59, 59>>, TRUE, "htm")
        new == File("std", 32, <<1, 1, 2025, 0, 0, 0>>, TRUE, "html")
        bad == File("std", 32, <<13, 1, 2025, 10, 0, 0>>, TRUE, "html")
        other == File("std", 320, <<1, 1, 2026, 0, 0, 1>>, TRUE, "html")
        three == File("std", 3, <<2, 29, 2024, 12, 30, 0>>, TRUE, "html")
    IN  { <<FALSE, <<>>>>, <<TRUE, <<>>>>, <<TRUE, <<old>>>>,
          <<TRUE, <<new, old>>>>, <<TRUE, <<other, old, new>>>>,
          <<TRUE, <<bad>>>>, <<TRUE, <<other, bad>>>>, <<TRUE, <<three>>>> }

Configs == { AllSections, AllSections \ {"GitHub"},
             AllSections \ {"TestResults"}, AllSections \ {"Email"} }

NoIssue == Issue(0, <<>>, <<>>)

\* The issues gh may return for number n.
FetchedIssues(n) ==
    { Issue(n, <<>>, <<>>),
      Issue(n, <<<<"r", "e", "a", "d", "y">>>>, <<<<"a", "n", "n">>>>) }

MainIdle ==
    /\ argv = <<ScriptName>> /\ gh_status = "ok" /\ mpc = "idle"
    /\ exit_code = -1 /\ steps = <<>> /\ gh_calls = 0 /\ smtp_attempts = 0
    /\ m_issue = NoIssue /\ m_attachment = None

InitMain ==
    /\ argv \in Argvs
    /\ cfg \in Configs
    /\ gh_status \in {"ok", "nonzero", "unavailable"}
    /\ smtp_status \in SmtpStatuses
    /\ outbox = <<>>
    /\ \E d \in MainDirs : output_dir_exists = d[1] /\ listing = d[2]
    /\ issue_number = 0
    /\ find_ret = NotCalled /\ prev_ret = NotCalled
    /\ own_changed = FALSE /\ fpc = "idle"
    /\ mpc = "args"
    /\ exit_code = -1
    /\ steps = <<>>
    /\ gh_calls = 0
    /\ smtp_attempts = 0
    /\ m_issue = NoIssue
    /\ m_attachment = None

\* sys.exit(code), or an uncaught exception (status 1)
Exit(code) == mpc' = "exited" /\ exit_code' = code

\* len(sys.argv) < 2, then int(sys.argv[1])
ValidateArgs ==
    /\ mpc = "args"
    /\ steps' = Append(steps, "args")
    /\ IF Len(argv) < 2
       THEN Exit(1) /\ UNCHANGED issue_number
       ELSE LET n == IntParse(argv[2])
            IN  IF n.exc = "ValueError"
                THEN Exit(1) /\ UNCHANGED issue_number
                ELSE /\ issue_number' = n.value
                     /\ mpc' = "config"
                     /\ UNCHANGED exit_code
    /\ UNCHANGED <<envVars, output_dir_exists, listing, find_ret, prev_ret,
                   own_changed, fpc, argv, gh_status, gh_calls, smtp_attempts,
                   m_issue, m_attachment, sendVars, listVars>>

\* load_settings() and the three lookups that follow it: a missing section
\* is a KeyError nothing catches.
LoadConfig ==
    /\ mpc = "config"
    /\ steps' = Append(steps, "config")
    /\ IF {"GitHub", "TestResults"} \subseteq cfg
       THEN mpc' = "fetch" /\ UNCHANGED exit_code
       ELSE Exit(1)
    /\ UNCHANGED <<envVars, findVars, argv, gh_status, gh_calls, smtp_attempts,
                   m_issue, m_attachment, sendVars, listVars>>

\* issue = get_github_issue(issue_number, repository)
FetchIssue ==
    /\ mpc = "fetch"
    /\ steps' = Append(steps, "fetch")
    /\ gh_calls' = gh_calls + 1
    /\ LET r == get_github_issue(gh_status)
       IN  IF r.exit = -1
           THEN /\ m_issue' \in FetchedIssues(issue_number)
                /\ mpc' = "search"
                /\ UNCHANGED exit_code
           ELSE Exit(r.exit) /\ UNCHANGED m_issue
    /\ UNCHANGED <<envVars, findVars, argv, gh_status, smtp_attempts,
                   m_attachment, sendVars, listVars>>

\* attachment = find_latest_test_result(issue_number, output_dir)
SearchArtifact ==
    /\ mpc = "search"
    /\ steps' = Append(steps, "search")
    /\ LET r == find_latest_test_result(issue_number, OutputDir,
                                        output_dir_exists, FileNames(listing))
       IN  /\ find_ret' = r
           /\ m_attachment' = r.result
           /\ IF r.raised = "none"
              THEN mpc' = "send" /\ UNCHANGED exit_code
              ELSE Exit(1)
    /\ UNCHANGED <<envVars, issue_number, output_dir_exists, listing, prev_ret,
                   own_changed, fpc, argv, gh_status, gh_calls, smtp_attempts,
                   m_issue, sendVars, listVars>>

\* A faulty variant: the result of send_email is ignored, the run always ends "Done!".
SendExitIgnoresResult(r) == IF r.raised # "none" THEN 1 ELSE 0

\* if send_email(...): print("Done!") else: sys.exit(1); an exception
\* leaving send_email ends the process with status 1.
SendExit(r) == IF r.raised # "none" THEN 1 ELSE IF r.ret THEN 0 ELSE 1

\* send_email(config, issue, attachment, repo_name): the path main() passes
\* is one os.listdir returned, a file of the directory.
SendStep ==
    /\ mpc = "send"
    /\ steps' = Append(steps, "send")
    /\ LET r == send_email(cfg, m_issue, m_attachment, RepoName,
                           IF m_attachment.some THEN "file" ELSE "missing",
                           smtp_status)
       IN  /\ send_ret' = r
           /\ outbox' = outbox \o r.delivered
           /\ smtp_attempts' = smtp_attempts + r.attempts
           /\ Exit(SendExit(r))
    /\ UNCHANGED <<cfg, smtp_status, findVars, argv, gh_status, gh_calls,
                   m_issue, m_attachment, s_issue, s_attachment, s_kind, spc,
                   listVars>>

NextMain ==
    ValidateArgs \/ LoadConfig \/ FetchIssue \/ SearchArtifact \/ SendStep

(***************************************************************************)
(* get_issues.py                                                           *)
(***************************************************************************)
InProgress == <<"i", "n", "-", "p", "r", "o", "g", "r", "e", "s", "s">>

Ready == <<"r", "e", "a", "d", "y">>

Blocked == <<"b", "l", "o", "c", "k", "e", "d">>

ListerLabels == {InProgress, Ready, Blocked}

\* The issues `gh issue list` may print: at most n, numbered 101, 102, ...
\* in the order printed, each with at most MaxLabels distinct labels.
IssueLists(n) ==
    UNION { { [i \in 1..k |-> [number |-> 100 + i, title |-> <<"t">>,
                               labels |-> ls[i]]] :
                ls \in [1..k -> DistinctSeqs(ListerLabels, MaxLabels)] }
            : k \in 0..n }

GhStderr == <<"g", "h", ":", " ", "e", "r", "r">>

Traceback == <<"T", "r", "a", "c", "e", "b", "a", "c", "k">>

ListIdle ==
    /\ l_gh = [status |-> "ok", issues |-> <<>>, stderr |-> <<>>]
    /\ lpc = "idle" /\ l_issues = <<>> /\ l_i = 0
    /\ l_stdout = <<>> /\ l_stderr = <<>> /\ l_exit = -1

InitList ==
    /\ l_gh \in { [status |-> "ok", issues |-> is, stderr |-> <<>>] :
                      is \in IssueLists(MaxIssues) }
                \cup { [status |-> "nonzero", issues |-> <<>>, stderr |-> GhStderr],
                       [status |-> "unavailable", issues |-> <<>>,
                        stderr |-> <<>>] }
    /\ lpc = "run"
    /\ l_issues = <<>>
    /\ l_i = 0
    /\ l_stdout = <<>>
    /\ l_stderr = <<>>
    /\ l_exit = -1

\* A faulty variant: the handler names an exception subprocess.run never raises.
ListerCaughtNothing(exc) == FALSE

\* except subprocess.CalledProcessError as e
ListerCaught(exc) == exc = "CalledProcessError"

\* A faulty variant: only the first label of an issue is tested.
LabelSelectedFirstOnly(labels) ==
    Len(labels) > 0 /\ labels[1] \in {InProgress, Ready}

\* 'in-progress' in labels or 'ready' in labels
LabelSelected(labels) ==
    \/ \E k \in 1..Len(labels) : labels[k] = InProgress
    \/ \E k \in 1..Len(labels) : labels[k] = Ready

\* The line printed for an issue.
IssueLine(issue) ==
    [number |-> issue.number, title |-> issue.title,
     labels |-> Join(<<",">>, issue.labels)]

\* subprocess.run(..., check=True) and json.loads(result.stdout) : on a
\* non-zero exit the handler prints the command's error stream and exits 1;
\* an exception the handler does not name ends the process with a traceback
\* and status 1.
ListerRunGh ==
    /\ lpc = "run"
    /\ LET exc == GhRun(l_gh.status)
       IN  IF exc = "none"
           THEN /\ l_issues' = l_gh.issues
                /\ l_i' = 1
                /\ lpc' = "loop"
                /\ UNCHANGED <<l_stderr, l_exit>>
           ELSE /\ l_stderr' = Append(l_stderr,
                       IF ListerCaught(exc)
                       THEN <<"E", "r", "r", "o", "r", ":", " ">> \o l_gh.stderr
                       ELSE Traceback)
                /\ l_exit' = 1
                /\ lpc' = "exited"
                /\ UNCHANGED <<l_issues, l_i>>
    /\ UNCHANGED <<l_gh, l_stdout, envVars, findVars, sendVars, mainVars>>

\* One iteration of "for issue in issues".
ListerLoop ==
    /\ lpc = "loop"
    /\ l_i <= Len(l_issues)
    /\ LET issue == l_issues[l_i]
           labels == issue.labels
       IN  l_stdout' = IF LabelSelected(labels)
                       THEN Append(l_stdout, IssueLine(issue))
                       ELSE l_stdout
    /\ l_i' = l_i + 1
    /\ UNCHANGED <<l_gh, lpc, l_issues, l_stderr, l_exit,
                   envVars, findVars, sendVars, mainVars>>

\* The loop is over and the script ends.
ListerEnd ==
    /\ lpc = "loop"
    /\ l_i > Len(l_issues)
    /\ lpc' = "exited"
    /\ l_exit' = 0
    /\ UNCHANGED <<l_gh, l_issues, l_i, l_stdout, l_stderr,
                   envVars, findVars, sendVars, mainVars>>

NextList == ListerRunGh \/ ListerLoop \/ ListerEnd

EnvIdle == cfg = AllSections /\ smtp_status = "ok" /\ outbox = <<>>

(***************************************************************************)
(* Specifications, one per component.                                      *)
(***************************************************************************)
InitFindSpec == InitFind /\ EnvIdle /\ SendIdle /\ MainIdle /\ ListIdle

InitSendSpec == InitSend /\ FindIdle /\ MainIdle /\ ListIdle

InitMainSpec == InitMain /\ SendIdle /\ ListIdle

InitListSpec == InitList /\ EnvIdle /\ FindIdle /\ SendIdle /\ MainIdle

SpecFind == InitFindSpec /\ [][NextFind]_vars

SpecSend == InitSendSpec /\ [][NextSend]_vars

SpecMain == InitMainSpec /\ [][NextMain]_vars

SpecList == InitListSpec /\ [][NextList]_vars

(***************************************************************************)
(* Vocabulary of the properties.  It is stated on the files as their       *)
(* producer described them and on the calendar, not on the selector's own  *)
(* parsing.                                                                *)
(***************************************************************************)
MonthLengths == <<31, 28, 31, 30, 31, 30, 31, 31, 30, 31, 30, 31>>

LeapYear(y) == y % 4 = 0 /\ (y % 100 # 0 \/ y % 400 = 0)

\* ts = <<month, day, year, hour, minute, second>> is a date and time of the
\* proleptic Gregorian calendar, years 1 to 9999.
CalendarValid(ts) ==
    /\ ts[3] \in 1..9999
    /\ ts[1] \in 1..12
    /\ ts[2] >= 1
    /\ ts[2] <= MonthLengths[ts[1]] + (IF ts[1] = 2 /\ LeapYear(ts[3]) THEN 1 ELSE 0)
    /\ ts[4] \in 0..23 /\ ts[5] \in 0..59 /\ ts[6] \in 0..59

\* Days from 01-01-0001 to the date of a valid ts, and seconds into its day.
DayNumber(ts) ==
    LET y == ts[3] - 1
        before == {m \in 1..12 : m < ts[1]}
        RECURSIVE Sum(_)
        Sum(S) == IF S = {} THEN 0
                  ELSE LET m == CHOOSE x \in S : TRUE
                       IN  MonthLengths[m] + Sum(S \ {m})
    IN  365 * y + (y \div 4) - (y \div 100) + (y \div 400) + Sum(before)
        + (IF ts[1] > 2 /\ LeapYear(ts[3]) THEN 1 ELSE 0) + ts[2]

SecondOfDay(ts) == 3600 * ts[4] + 60 * ts[5] + ts[6]

\* a is at the same instant as b or later
NotOlder(a, b) ==
    \/ DayNumber(a) > DayNumber(b)
    \/ DayNumber(a) = DayNumber(b) /\ SecondOfDay(a) >= SecondOfDay(b)

\* An artifact of issue n with a parsable timestamp.
Candidate(f, n) == NamedFor(f, n) /\ CalendarValid(f.ts)

\* Named for issue n in the fixed pattern, with a timestamp that is no date.
Unparsable(f, n) == NamedFor(f, n) /\ ~CalendarValid(f.ts)

PathOf(f) == Some(PathJoin(OutputDir, FileName(f)))

\* find_ret is the outcome of a call on the directory as it is now.
JustCalled == fpc \in {"env", "done"}

Entries == 1..Len(listing)

\* C1: whenever the directory holds at least one artifact of the issue with
\* a parsable timestamp, find_latest_test_result returns the path of one of
\* them, none of the others is newer, and every other one with a different
\* timestamp is strictly older (chronologically, year first).
C1_NewestSelected ==
    (JustCalled /\ \E i \in Entries : Candidate(listing[i], issue_number)) =>
        /\ find_ret.raised = "none"
        /\ find_ret.result.some
        /\ \E i \in Entries :
              /\ Candidate(listing[i], issue_number)
              /\ find_ret.result = PathOf(listing[i])
              /\ \A j \in Entries :
                    Candidate(listing[j], issue_number) =>
                        /\ NotOlder(listing[i].ts, listing[j].ts)
                        /\ listing[j].ts # listing[i].ts =>
                               ~NotOlder(listing[j].ts, listing[i].ts)

\* The selector chose 01-01-2025 over 12-31-2024.
C1_Witness ==
    /\ JustCalled
    /\ \E i, j \in Entries :
          /\ Candidate(listing[i], issue_number)
          /\ Candidate(listing[j], issue_number)
          /\ listing[i].ts = <<1, 1, 2025, 0, 0, 0>>
          /\ listing[j].ts = <<12, 31, 2024, 23, 59, 59>>
          /\ find_ret.result = PathOf(listing[i])

\* C2: files named for another issue number (also one that has the issue
\* number as a prefix) or not in the fixed pattern are never returned, and
\* adding or removing such a file between two calls leaves the result as it
\* was.
C2_ForeignIgnored ==
    /\ (fpc = "done" /\ ~own_changed) => find_ret = prev_ret
    /\ JustCalled =>
          \A f \in FilePool :
              ~NamedFor(f, issue_number) => find_ret.result # PathOf(f)

\* Two calls for issue 32 returned the same artifact although a newer file
\* of issue 320 came between them.
C2_Witness ==
    /\ fpc = "done" /\ ~own_changed /\ issue_number = 32
    /\ find_ret.result.some
    /\ find_ret = prev_ret
    /\ \E i, j \in Entries :
          /\ listing[i].num = 320
          /\ find_ret.result = PathOf(listing[j])
          /\ ~NotOlder(listing[j].ts, listing[i].ts)

\* C3: a file named for the issue whose timestamp is no date never makes the
\* call raise and is never returned; when the directory holds no other file
\* of the issue the call returns None with the "no files found" warning, as
\* for a directory without any file of the issue.
C3_UnparsableExcluded ==
    JustCalled =>
        /\ find_ret.raised = "none"
        /\ \A i \in Entries :
              Unparsable(listing[i], issue_number) =>
                  find_ret.result # PathOf(listing[i])
        /\ (output_dir_exists
            /\ \A i \in Entries : ~Candidate(listing[i], issue_number)) =>
               find_ret = [result |-> None, warning |-> "no files found",
                           raised |-> "none"]

\* The only files of the issue have month 13 or day 45, and nothing was found.
C3_Witness ==
    /\ JustCalled
    /\ \E i \in Entries : Unparsable(listing[i], issue_number)
                          /\ listing[i].ts[1] = 13
    /\ \E i \in Entries : Unparsable(listing[i], issue_number)
                          /\ listing[i].ts[2] = 45
    /\ find_ret.result = None
    /\ find_ret.warning = "no files found"

(***************************************************************************)
(* Properties of main().                                                   *)
(***************************************************************************)
Did(step) == \E k \in 1..Len(steps) : steps[k] = step

\* The output directory is missing or holds no artifact of the issue.
NoArtifact ==
    ~output_dir_exists \/ \A i \in Entries : ~Candidate(listing[i], issue_number)

\* The command line carries an integer issue number.
ArgIsInteger ==
    Len(argv) >= 2 /\ \E n \in -40..40 : argv[2] = Str(n)

FetchSucceeded == Did("fetch") /\ gh_status = "ok"

FetchFailed == Did("fetch") /\ gh_status # "ok"

\* An SMTP session was opened and the endpoint accepted nothing.
TransmissionFailed == smtp_attempts > 0 /\ outbox = <<>>

\* C4: with the output directory missing or without an artifact of the
\* issue, the search returns None with a warning and raises nothing, main()
\* goes on to the email step with no attachment, and a run whose message is
\* transmitted carries no attachment and exits 0.
C4_MissingArtifactNonFatal ==
    (Did("search") /\ NoArtifact) =>
        /\ find_ret.result = None
        /\ find_ret.raised = "none"
        /\ find_ret.warning \in {"directory not found", "no files found"}
        /\ ~output_dir_exists => find_ret.warning = "directory not found"
        /\ m_attachment = None
        /\ mpc = "send" \/ Did("send")
        /\ (Did("send") /\ "Email" \in cfg /\ smtp_status = "ok") =>
               /\ Len(outbox) = 1
               /\ outbox[1].attachments = <<>>
               /\ mpc = "exited" /\ exit_code = 0

\* A run without an output directory sent its message and exited 0.
C4_Witness ==
    /\ mpc = "exited" /\ exit_code = 0
    /\ ~output_dir_exists
    /\ find_ret.warning = "directory not found"
    /\ Len(outbox) = 1 /\ outbox[1].attachments = <<>>

\* C5: a run that has ended has status 1 when the argument is missing or no
\* integer, when gh is unavailable, when gh fails or when the transmission
\* fails; it has status 0 if and only if the argument is an integer, the
\* fetch succeeded and send_email returned True.
C5_ExitStatus ==
    mpc = "exited" =>
        /\ exit_code \in {0, 1}
        /\ ~ArgIsInteger => exit_code = 1
        /\ gh_status = "unavailable" => exit_code = 1
        /\ gh_status = "nonzero" => exit_code = 1
        /\ TransmissionFailed => exit_code = 1
        /\ exit_code = 0 <=>
               (ArgIsInteger /\ FetchSucceeded /\ Did("send") /\ send_ret.ret)

\* One run ended 0 with its artifact attached.
C5_Witness ==
    /\ mpc = "exited" /\ exit_code = 0
    /\ Len(outbox) = 1 /\ Len(outbox[1].attachments) = 1

StepOrder == <<"args", "config", "fetch", "search", "send">>

\* C10: the steps of a run are an initial part of argument validation,
\* configuration load, issue fetch, artifact search, email transmission,
\* each at most once; gh is never invoked on an invalid argument; a failed
\* argument validation or fetch ends the run at once, so no search and no
\* transmission follows a failed fetch; a failed transmission was attempted
\* once and ends the run with a non-zero status.
C10_StepOrder ==
    /\ Len(steps) <= Len(StepOrder)
    /\ steps = SubSeq(StepOrder, 1, Len(steps))
    /\ gh_calls <= 1 /\ smtp_attempts <= 1
    /\ gh_calls = (IF Did("fetch") THEN 1 ELSE 0)
    /\ smtp_attempts > 0 => Did("send")
    /\ (Did("args") /\ ~ArgIsInteger) =>
           /\ steps = <<"args">> /\ gh_calls = 0
           /\ mpc = "exited" /\ exit_code = 1
    /\ FetchFailed =>
           /\ steps = <<"args", "config", "fetch">>
           /\ smtp_attempts = 0 /\ outbox = <<>>
           /\ find_ret = NotCalled
           /\ mpc = "exited" /\ exit_code = 1
    /\ TransmissionFailed =>
           /\ smtp_attempts = 1
           /\ mpc = "exited" /\ exit_code # 0
    /\ mpc = "exited" <=> exit_code # -1

\* A run ended at a failed fetch, without search or transmission.
C10_Witness ==
    /\ FetchFailed /\ gh_status = "nonzero"
    /\ steps = <<"args", "config", "fetch">>
    /\ mpc = "exited" /\ exit_code = 1

(***************************************************************************)
(* Properties of send_email and format_issue_html.                         *)
(***************************************************************************)
\* A path was given to send_email and something is on disk there.
PathExists == s_attachment.some /\ s_kind # "missing"

HasLine(html, tag) == \E k \in 1..Len(html) : html[k].tag = tag

LinesOf(html, tag) == {k \in 1..Len(html) : html[k].tag = tag}

\* C6: a message send_email transmitted carries an attachment if and only if
\* a path was given and exists on disk, and the attachment is named by the
\* path's base filename; with no path, or a path that does not exist,
\* send_email raises nothing and, when the endpoint accepts the message,
\* transmits it with the HTML part only and returns True.
C6_AttachmentIffExists ==
    spc = "done" =>
        /\ Len(outbox) <= 1
        /\ \A k \in 1..Len(outbox) :
              /\ outbox[k].attachments # <<>> <=> PathExists
              /\ Len(outbox[k].attachments) <= 1
              /\ \A a \in 1..Len(outbox[k].attachments) :
                    outbox[k].attachments[a].filename = FileName(SampleFile)
        /\ (~PathExists /\ "Email" \in cfg) =>
              /\ send_ret.raised = "none"
              /\ smtp_status = "ok" =>
                    /\ send_ret.ret
                    /\ Len(outbox) = 1
                    /\ outbox[1].attachments = <<>>
                    /\ Len(outbox[1].html) > 0

\* A path that is not on disk was given, and the message went out without
\* an attachment.
C6_Witness ==
    /\ spc = "done"
    /\ s_attachment.some /\ s_kind = "missing"
    /\ send_ret.ret /\ send_ret.raised = "none"
    /\ Len(outbox) = 1 /\ outbox[1].attachments = <<>>

\* C9: the rendered document has a Labels line if and only if the issue has
\* a label and an Assignees line if and only if it has an assignee (each at
\* most once and never empty), and always renders the identifier and title,
\* the state and the created and updated timestamps.
C9_OptionalLines ==
    \A k \in 1..Len(outbox) :
        LET html == outbox[k].html
        IN  /\ HasLine(html, "Labels") <=> Len(s_issue.labels) > 0
            /\ HasLine(html, "Assignees") <=> Len(s_issue.assignees) > 0
            /\ Cardinality(LinesOf(html, "Labels")) <= 1
            /\ Cardinality(LinesOf(html, "Assignees")) <= 1
            /\ \A i \in 1..Len(html) :
                  html[i].tag \in {"Labels", "Assignees"} => html[i].text # <<>>
            /\ \A tag \in {"h2", "Status", "Created", "Updated"} :
                  Cardinality(LinesOf(html, tag)) = 1
            /\ \E i \in LinesOf(html, "h2") :
                  html[i].text = <<"#", "3", "2", ":", " ">> \o s_issue.title
            /\ \E i \in LinesOf(html, "Status") : html[i].text = s_issue.state
            /\ \E i \in LinesOf(html, "Created") :
                  html[i].text = s_issue.createdAt
            /\ \E i \in LinesOf(html, "Updated") :
                  html[i].text = s_issue.updatedAt

\* An issue without labels and assignees was rendered without either line.
C9_Witness ==
    /\ Len(outbox) = 1
    /\ s_issue.labels = <<>> /\ s_issue.assignees = <<>>
    /\ ~HasLine(outbox[1].html, "Labels")
    /\ ~HasLine(outbox[1].html, "Assignees")
    /\ HasLine(outbox[1].html, "h2")

(***************************************************************************)
(* Properties of get_issues.py.                                            *)
(***************************************************************************)
LabelSet(issue) == {issue.labels[k] : k \in 1..Len(issue.labels)}

Wanted(issue) == LabelSet(issue) \cap {InProgress, Ready} # {}

Numbers(q) == [k \in 1..Len(q) |-> q[k].number]

\* C7: the lines printed so far are, in the order of the list gh returned,
\* one line for each issue already visited whose label set meets
\* {in-progress, ready}, and no other line; at the end this is the whole
\* list.
C7_LabelFilter ==
    /\ lpc \in {"loop", "exited"} /\ l_gh.status = "ok" =>
          Numbers(l_stdout) =
              Numbers(SelectSeq(SubSeq(l_gh.issues, 1, l_i - 1), Wanted))
    /\ lpc = "exited" /\ l_gh.status = "ok" => l_i = Len(l_gh.issues) + 1
    /\ l_gh.status # "ok" => l_stdout = <<>>

\* A blocked-only issue was skipped and an issue with both labels printed
\* once.
C7_Witness ==
    /\ lpc = "exited" /\ Len(l_gh.issues) = 2
    /\ LabelSet(l_gh.issues[1]) = {Blocked}
    /\ LabelSet(l_gh.issues[2]) = {InProgress, Ready}
    /\ Numbers(l_stdout) = <<102>>

ErrorLine == <<"E", "r", "r", "o", "r", ":", " ">> \o GhStderr

\* C8 as stated: status 1 on external-command failure, that is a non-zero
\* exit of gh, with its error stream on standard error and no issue line,
\* and status 0 otherwise.
C8_AsStated ==
    lpc = "exited" =>
        IF l_gh.status = "nonzero"
        THEN l_exit = 1 /\ l_stderr = <<ErrorLine>> /\ l_stdout = <<>>
        ELSE l_exit = 0

\* C8, amended: status 1 with gh's error stream on standard error and no
\* issue line when gh exits non-zero; status 1 with a traceback, and no
\* issue line, when gh cannot be started; status 0 with nothing on standard
\* error when gh succeeds.
C8_ExitStatus ==
    lpc = "exited" =>
        CASE l_gh.status = "nonzero" ->
                 l_exit = 1 /\ l_stderr = <<ErrorLine>> /\ l_stdout = <<>>
          [] l_gh.status = "unavailable" ->
                 l_exit = 1 /\ l_stderr = <<Traceback>> /\ l_stdout = <<>>
          [] OTHER -> l_exit = 0 /\ l_stderr = <<>>

\* gh could not be started and the script ended with status 1.
C8_Witness ==
    lpc = "exited" /\ l_gh.status = "unavailable" /\ l_exit = 1

====
